---- MODULE Spec2Model ----
(***************************************************************************)
(* A model of data_download/fetch_articles.py: the cursor pagination loop  *)
(* with its resume and checkpoint files (fetch_and_save_articles), and the *)
(* record flattening it applies to every work (enhance_work_data).         *)
(*                                                                         *)
(* JSON values.  A dictionary is a record with one field per key the code  *)
(* reads; the value of a field is an option: Absent (the key is not in the *)
(* dictionary), Null (the key is there and holds null/None) or Val(v).     *)
(* A string is a sequence of one-character strings, a JSON list is a       *)
(* sequence.                                                               *)
(***************************************************************************)
EXTENDS Integers, Sequences, FiniteSets, TLC

Absent == [k |-> "absent"]
Null == [k |-> "null"]
Val(v) == [k |-> "val", v |-> v]

\* d.get(key): None when the key is absent
Get(o) == IF o.k = "absent" THEN Null ELSE o

\* d.get(key, default): the default only when the key is absent
GetOr(o, default) == IF o.k = "absent" THEN Val(default) ELSE o

\* truth value of a string, list or None
Truthy(o) == o.k = "val" /\ o.v # <<>>

\* truth value of a number or None
TruthyNum(o) == o.k = "val" /\ o.v # 0

\* a dictionary none of whose keys is present is {} and is falsy
DictEmpty(d) == \A key \in DOMAIN d : d[key].k = "absent"

\* truth value of a dictionary or None
TruthyDict(o) == o.k = "val" /\ ~DictEmpty(o.v)

(***************************************************************************)
(* Strings: Python compares str by code point, a proper prefix first.      *)
(***************************************************************************)
CodePoint(c) ==
    CASE c = " " -> 32
      [] c = "*" -> 42
      [] c = "," -> 44
      [] c = "1" -> 49
      [] c = "2" -> 50
      [] c = "3" -> 51
      [] c = "4" -> 52
      [] c = "A" -> 65
      [] c = "B" -> 66
      [] c = "C" -> 67
      [] c = "D" -> 68
      [] c = "E" -> 69
      [] c = "F" -> 70
      [] c = "G" -> 71
      [] c = "T" -> 84
      [] c = "X" -> 88
      [] c = "Y" -> 89
      [] c = "|" -> 124

RECURSIVE StrLess(_, _)
StrLess(a, b) ==
    IF a = <<>> THEN b # <<>>
    ELSE IF b = <<>> THEN FALSE
    ELSE IF Head(a) = Head(b) THEN StrLess(Tail(a), Tail(b))
    ELSE CodePoint(Head(a)) < CodePoint(Head(b))

\* sorted(set(...)) of strings
RECURSIVE SortedSet(_)
SortedSet(S) ==
    IF S = {} THEN <<>>
    ELSE LET m == CHOOSE x \in S : \A y \in S : x = y \/ StrLess(x, y)
         IN  <<m>> \o SortedSet(S \ {m})

\* sep.join(parts)
RECURSIVE Join(_, _)
Join(sep, parts) ==
    IF parts = <<>> THEN <<>>
    ELSE IF Len(parts) = 1 THEN parts[1]
    ELSE parts[1] \o sep \o Join(sep, Tail(parts))

\* [x for x in s if keep(x)]
RECURSIVE SelectStr(_)
SelectStr(parts) ==
    IF parts = <<>> THEN <<>>
    ELSE IF Truthy(Head(parts)) THEN <<Head(parts).v>> \o SelectStr(Tail(parts))
    ELSE SelectStr(Tail(parts))

\* seq[:n]
Take(s, n) == SubSeq(s, 1, IF Len(s) < n THEN Len(s) ELSE n)

PipeSep == <<" ", "|", " ">>
CommaSep == <<",", " ">>

\* enhanced["keywords"][:5]
TopK == 5

(***************************************************************************)
(* enhance_work_data.  The result is [ok |-> TRUE, rec |-> the flat        *)
(* record] or [ok |-> FALSE, err |-> the exception raised].                *)
(***************************************************************************)
Raise(e) == [ok |-> FALSE, err |-> e]

\* the exception one authorship entry raises, "" when it raises none:
\* auth.get("author", {}) is None when the key holds null, and None.get
\* fails; auth.get("institutions", []) is None likewise, and iterating it
\* fails
AuthErr(auth) ==
    IF auth.author.k = "null" THEN "AttributeError"
    ELSE IF auth.institutions.k = "null" THEN "TypeError"
    ELSE ""

InstInfo(inst) ==
    [institution_id |-> Get(inst.id),
     institution_name |-> Get(inst.display_name),
     country |-> Get(inst.country),
     type |-> Get(inst.type)]

AuthorInfo(auth) ==
    LET author == GetOr(auth.author, [id |-> Absent, display_name |-> Absent, orcid |-> Absent]).v
        insts == GetOr(auth.institutions, <<>>).v
    IN  [author_id |-> Get(author.id),
         author_name |-> Get(author.display_name),
         orcid |-> Get(author.orcid),
         position |-> Get(auth.author_position),
         institutions |-> [i \in DOMAIN insts |-> InstInfo(insts[i])]]

\* the display names one authorship adds to institutions_set
AuthInstNames(auth) ==
    LET insts == GetOr(auth.institutions, <<>>).v
    IN  {Get(insts[i].display_name).v : i \in {j \in DOMAIN insts : Truthy(Get(insts[j].display_name))}}

\* the "# Authors" block: the first exception in list order, or the list
AuthorsBlock(work) ==
    IF work.authorships.k = "null" THEN Raise("TypeError")
    ELSE LET auths == GetOr(work.authorships, <<>>).v
             bad == {i \in DOMAIN auths : AuthErr(auths[i]) # ""}
         IN  IF bad # {}
             THEN Raise(AuthErr(auths[CHOOSE i \in bad : \A j \in bad : i <= j]))
             ELSE [ok |-> TRUE,
                   authors_list |-> [i \in DOMAIN auths |-> AuthorInfo(auths[i])],
                   institutions_set |-> UNION {AuthInstNames(auths[i]) : i \in DOMAIN auths}]

\* [topic[key].get("display_name") for topic in topics if topic.get(key)]
RECURSIVE TopicNames(_, _)
TopicNames(topics, key) ==
    IF topics = <<>> THEN <<>>
    ELSE IF TruthyDict(Get(Head(topics)[key]))
         THEN <<Get(Head(topics)[key].v.display_name)>> \o TopicNames(Tail(topics), key)
         ELSE TopicNames(Tail(topics), key)

\* [k.get(key) for k in items]
Names(items, key) == [i \in DOMAIN items |-> Get(items[i][key])]

HasNone(names) == \E i \in DOMAIN names : names[i].k = "null"

Strings(names) == {names[i].v : i \in DOMAIN names}

\* the "# Fields & topics" block.  Iterating a null list raises TypeError;
\* a None among the names raises TypeError too, in sorted() when a string
\* stands beside it and in ", ".join otherwise.
TopicsBlock(work) ==
    IF work.topics.k = "null" THEN Raise("TypeError")
    ELSE IF work.concepts.k = "null" THEN Raise("TypeError")
    ELSE LET topics == GetOr(work.topics, <<>>).v
             fields == TopicNames(topics, "field")
             domains == TopicNames(topics, "domain")
             concept_names == Names(GetOr(work.concepts, <<>>).v, "display_name")
         IN  IF concept_names = <<>> /\ work.keywords.k = "null" THEN Raise("TypeError")
             ELSE LET keywords == IF concept_names # <<>> THEN concept_names
                                  ELSE Names(GetOr(work.keywords, <<>>).v, "keyword")
                  IN  IF HasNone(fields) \/ HasNone(domains) \/ HasNone(keywords)
                      THEN Raise("TypeError")
                      ELSE [ok |-> TRUE,
                            fields |-> SortedSet(Strings(fields)),
                            domains |-> SortedSet(Strings(domains)),
                            keywords |-> SortedSet(Strings(keywords))]

\* the "# Journal info" block: the journal key is set only for a truthy
\* primary_location with a truthy source
Journal(work) ==
    IF work.primary_location.k = "val" /\ TruthyDict(Get(work.primary_location.v.source))
    THEN LET source == work.primary_location.v.source.v
         IN  Val([name |-> Get(source.display_name),
                  type |-> Get(source.type),
                  issn |-> Get(source.issn),
                  is_oa |-> Get(source.is_oa)])
    ELSE Absent

\* " | ".join([p for p in topic_parts if p])
ResearchTopic(title, fields, domains, top_keywords) ==
    Join(PipeSep,
         SelectStr(<<title,
                     Val(IF fields # <<>> THEN Join(CommaSep, fields) ELSE <<>>),
                     Val(IF domains # <<>> THEN Join(CommaSep, domains) ELSE <<>>),
                     Val(IF top_keywords # <<>> THEN Join(CommaSep, top_keywords) ELSE <<>>)>>))

enhance_work_data(work) ==
    LET a == AuthorsBlock(work)
        t == TopicsBlock(work)
    IN  IF ~a.ok THEN a
        ELSE IF ~t.ok THEN t
        ELSE [ok |-> TRUE,
              rec |-> [id |-> Get(work.id),
                       title |-> Get(work.display_name),
                       publication_year |-> Get(work.publication_year),
                       cited_by_count |-> Get(work.cited_by_count),
                       referenced_works_count |-> Get(work.referenced_works_count),
                       type |-> Get(work.type),
                       authors |-> a.authors_list,
                       authors_count |-> Len(a.authors_list),
                       institutions_count |-> Cardinality(a.institutions_set),
                       fields |-> t.fields,
                       domains |-> t.domains,
                       keywords |-> t.keywords,
                       is_multidisciplinary |-> Len(t.fields) > 1,
                       top_keywords |-> Take(t.keywords, TopK),
                       ref_count |-> IF TruthyNum(Get(work.referenced_works_count))
                                     THEN work.referenced_works_count.v ELSE 1,
                       cited |-> IF TruthyNum(Get(work.cited_by_count))
                                 THEN work.cited_by_count.v ELSE 0,
                       journal |-> Journal(work),
                       research_topic |-> ResearchTopic(Get(work.display_name), t.fields,
                                                        t.domains, Take(t.keywords, TopK))]]

(***************************************************************************)
(* Bounds of the model.                                                    *)
(***************************************************************************)
\* pages of the source
MaxPages == 2
\* works on one page
MaxRecs == 2
\* runs of fetch_and_save_articles, one after the other
MaxRuns == 2
\* entries of a list in a raw work given to enhance_work_data
MaxList == 2
\* concepts or keywords of a raw work given to enhance_work_data
MaxKeywords == 7

(***************************************************************************)
(* Raw works.                                                              *)
(***************************************************************************)
NoDict == [id |-> Absent, display_name |-> Absent]

\* a work as the source returns it to the pager: an id, a title, one
\* concept.  With flattens = FALSE it has no concepts and one keyword that
\* carries display_name but no "keyword" key, on which enhance_work_data
\* raises.
MkWork(p, i, flattens) ==
    [id |-> Val(<<p, i>>),
     display_name |-> Val(<<"T">>),
     publication_year |-> Absent,
     cited_by_count |-> Val(i),
     referenced_works_count |-> Val(p),
     type |-> Absent,
     authorships |-> Val(<<>>),
     topics |-> Val(<<>>),
     concepts |-> IF flattens THEN Val(<<[display_name |-> Val(<<"A">>), keyword |-> Absent]>>)
                  ELSE Val(<<>>),
     keywords |-> IF flattens THEN Absent
                  ELSE Val(<<[display_name |-> Val(<<"A">>), keyword |-> Absent]>>),
     primary_location |-> Null]

(***************************************************************************)
(* The external source: a chain of pages.  Page i is served for the cursor *)
(* page i-1 returned ("*" for page 1); every page but the last returns a   *)
(* cursor token, the last returns null, no next_cursor key, or "".         *)
(***************************************************************************)
Star == <<"*">>

Digit(i) == <<"1", "2", "3", "4">>[i]

\* the cursor token page i returns; padded, it ends with a blank
Tok(i, padded) == <<"C", Digit(i)>> \o (IF padded THEN <<" ">> ELSE <<>>)

EndOfStream == {Null, Absent, Val(<<>>)}

Sources ==
    UNION {
      {[i \in 1..n |->
          [works |-> [j \in DOMAIN kinds[i] |-> MkWork(i, j, kinds[i][j])],
           next |-> IF i < n THEN Val(Tok(i, pads[i])) ELSE last]] :
        kinds \in [1..n -> UNION {[1..m -> BOOLEAN] : m \in 0..MaxRecs}],
        pads \in [1..n -> BOOLEAN],
        last \in EndOfStream}
      : n \in 1..MaxPages}

VARIABLES
    source,            \* the pages the external source serves
    mainDisk,          \* all_articles_enhanced.jsonl as it is on disk: Absent or Val(lines)
    pageFiles,         \* iterations/articles_page_N.jsonl on disk: N -> lines, for the files that exist
    cursorFiles,       \* iterations/cursor_after_page_N.txt: N -> text, for the files that exist
    pc,                \* where the process is: idle, a line of the loop (Running), or how the run ended (Ended)
    runs,              \* runs started so far
    resume_from_page,  \* the argument of the run, 0 for None
    cursor,            \* params["cursor"]
    total_downloaded,
    page_count,
    main_file_mode,
    has_more_pages,
    status,            \* response.status_code of the last request
    results,           \* data["results"] of the page in hand
    next_cursor,       \* data["meta"].get("next_cursor") of the page in hand
    idx,               \* position of the for loop in results
    mainBuf,           \* lines written to main_file and still in its buffer
    iterBuf,           \* lines written to iter_file and still in its buffer
    requests,          \* history: the cursors of the requests of this run, in order
    fetched,           \* history: the works the 200 responses of this run carried, in order
    start,             \* history: the files as the run found them
    prevEnd,           \* history: pc when the run was started
    work,              \* flattening: the raw work given to enhance_work_data
    enhanced,          \* flattening: what enhance_work_data returned
    fpc                \* flattening: "input" before the call, "returned" after it

fsVars == <<mainDisk, pageFiles, cursorFiles>>
runVars == <<pc, runs, resume_from_page, cursor, total_downloaded, page_count, main_file_mode,
             has_more_pages, status, results, next_cursor, idx, mainBuf, iterBuf>>
histVars == <<requests, fetched, start, prevEnd>>
pagerVars == <<source, fsVars, runVars, histVars>>
flatVars == <<work, enhanced, fpc>>
vars == <<pagerVars, flatVars>>

Ended == {"done", "crashed", "killed", "interrupted"}
Running == {"loop", "send", "wait", "open", "write", "write2", "cursor", "cwrite", "sleep"}

\* str.strip(): blanks off both ends
RECURSIVE LStrip(_)
LStrip(s) == IF s # <<>> /\ Head(s) = " " THEN LStrip(Tail(s)) ELSE s

RECURSIVE RStrip(_)
RStrip(s) == IF s # <<>> /\ s[Len(s)] = " " THEN RStrip(SubSeq(s, 1, Len(s) - 1)) ELSE s

Strip(s) == RStrip(LStrip(s))

\* json.dumps(enhanced_work, ensure_ascii=False) + "\n": one line per record
JsonLine(rec) == [json |-> rec]

\* sum(1 for _ in f)
LineCount(lines) == Len(lines)

\* if resume_from_page: ... if os.path.exists(cursor_file):
Resumes(R, cfiles) == R # 0 /\ (R - 1) \in DOMAIN cfiles

\* a slip in lines 44-48: "a" whenever a resume page is given, checkpoint
\* file or not
MainFileMode_AppendOnResume(R, cfiles) == IF R # 0 THEN "a" ELSE "w"

\* the mode all_articles_enhanced.jsonl is opened in
MainFileMode(R, cfiles) == IF Resumes(R, cfiles) THEN "a" ELSE "w"

\* params["cursor"] before the first request
FirstCursor(R, cfiles) == IF Resumes(R, cfiles) THEN Strip(cfiles[R - 1]) ELSE Star

\* total_downloaded before the first request: the lines of the page files
\* 1..R-1 that exist
RECURSIVE CountPrevious(_, _)
CountPrevious(n, pfiles) ==
    IF n <= 0 THEN 0
    ELSE CountPrevious(n - 1, pfiles) + (IF n \in DOMAIN pfiles THEN LineCount(pfiles[n]) ELSE 0)

FirstTotal(R, cfiles, pfiles) == IF Resumes(R, cfiles) THEN CountPrevious(R - 1, pfiles) ELSE 0

FirstPageCount(R, cfiles) == IF Resumes(R, cfiles) THEN R - 1 ELSE 0

\* open(output_file, mode): "w" empties the file, "a" keeps what is there,
\* both create a missing file
OpenMain(mode, disk) == IF mode = "w" \/ disk.k = "absent" THEN Val(<<>>) ELSE disk

\* the page the source serves for a cursor, 0 for a cursor it never issued
Serve(src, c) ==
    IF c = Star THEN 1
    ELSE IF \E i \in 1..(Len(src) - 1) : src[i].next = Val(c)
         THEN 1 + CHOOSE i \in 1..(Len(src) - 1) : src[i].next = Val(c)
         ELSE 0

\* the work of a run, lines 14-51
Start(R) ==
    /\ pc \in {"idle"} \cup Ended
    /\ runs < MaxRuns
    /\ runs' = runs + 1
    /\ resume_from_page' = R
    /\ cursor' = FirstCursor(R, cursorFiles)
    /\ total_downloaded' = FirstTotal(R, cursorFiles, pageFiles)
    /\ page_count' = FirstPageCount(R, cursorFiles)
    /\ main_file_mode' = MainFileMode(R, cursorFiles)
    /\ mainDisk' = OpenMain(MainFileMode(R, cursorFiles), mainDisk)
    /\ has_more_pages' = TRUE
    /\ status' = 0
    /\ results' = <<>>
    /\ next_cursor' = Null
    /\ idx' = 0
    /\ mainBuf' = <<>>
    /\ iterBuf' = <<>>
    /\ requests' = <<>>
    /\ fetched' = <<>>
    /\ start' = [main |-> mainDisk, pages |-> pageFiles, cursors |-> cursorFiles]
    /\ prevEnd' = pc
    /\ pc' = "loop"
    /\ UNCHANGED <<source, pageFiles, cursorFiles, flatVars>>

\* closing a file writes out what its buffer holds
Flushed(disk, buf) == Val(disk.v \o buf)

\* line 54: the page counter goes up before the request is made
IncPage ==
    /\ pc = "loop"
    /\ page_count' = page_count + 1
    /\ pc' = "send"
    /\ UNCHANGED <<source, fsVars, runs, resume_from_page, cursor, total_downloaded,
                   main_file_mode, has_more_pages, status, results, next_cursor, idx,
                   mainBuf, iterBuf, histVars, flatVars>>

\* line 57, the call: the request leaves with params["cursor"], and the
\* process waits in requests.get for the answer
SendRequest ==
    /\ pc = "send"
    /\ requests' = Append(requests, cursor)
    /\ pc' = "wait"
    /\ UNCHANGED <<source, fsVars, runs, resume_from_page, cursor, total_downloaded,
                   page_count, main_file_mode, has_more_pages, status, results,
                   next_cursor, idx, mainBuf, iterBuf, fetched, start, prevEnd, flatVars>>

\* lines 57-63, a 200 response for a cursor the source issued: the page is
\* in hand
RequestOk ==
    /\ pc = "wait"
    /\ Serve(source, cursor) # 0
    /\ LET page == source[Serve(source, cursor)]
       IN  /\ results' = page.works
           /\ next_cursor' = Get(page.next)
           /\ fetched' = fetched \o page.works
    /\ status' = 200
    /\ pc' = "open"
    /\ UNCHANGED <<source, fsVars, runs, resume_from_page, cursor, total_downloaded,
                   page_count, main_file_mode, has_more_pages, idx, mainBuf, iterBuf,
                   requests, start, prevEnd, flatVars>>

\* the status codes of the responses that are not 200
NonOk == {404, 500}

\* a slip in lines 58-60: continue in place of break, the loop goes on and
\* the request is made again
RequestFail_Retry ==
    /\ pc = "wait"
    /\ \E s \in NonOk : status' = s
    /\ pc' = "loop"
    /\ UNCHANGED <<source, fsVars, runs, resume_from_page, cursor, total_downloaded,
                   page_count, main_file_mode, has_more_pages, results, next_cursor, idx,
                   mainBuf, iterBuf, histVars, flatVars>>

\* lines 57-60 and the end of the outer with block, a response that is not
\* 200: break, main_file is closed
RequestFail ==
    /\ pc = "wait"
    /\ \E s \in NonOk : status' = s
    /\ mainDisk' = Flushed(mainDisk, mainBuf)
    /\ mainBuf' = <<>>
    /\ pc' = "done"
    /\ UNCHANGED <<source, pageFiles, cursorFiles, runs, resume_from_page, cursor,
                   total_downloaded, page_count, main_file_mode, has_more_pages, results,
                   next_cursor, idx, iterBuf, histVars, flatVars>>

\* lines 65-67: the page file is created empty (or emptied), the for loop
\* starts
OpenPage ==
    /\ pc = "open"
    /\ pageFiles' = (page_count :> <<>>) @@ pageFiles
    /\ iterBuf' = <<>>
    /\ idx' = 1
    /\ pc' = "write"
    /\ UNCHANGED <<source, mainDisk, cursorFiles, runs, resume_from_page, cursor,
                   total_downloaded, page_count, main_file_mode, has_more_pages, status,
                   results, next_cursor, mainBuf, histVars, flatVars>>

\* lines 68-70 for one work: the line goes to the buffer of iter_file, and
\* a buffer that fills up writes a prefix of what it holds to disk
WritePage ==
    /\ pc = "write"
    /\ idx <= Len(results)
    /\ enhance_work_data(results[idx]).ok
    /\ LET json_line == JsonLine(enhance_work_data(results[idx]).rec)
           ib == Append(iterBuf, json_line)
       IN  \E ki \in 0..Len(ib) :
              /\ pageFiles' = [pageFiles EXCEPT ![page_count] = @ \o SubSeq(ib, 1, ki)]
              /\ iterBuf' = SubSeq(ib, ki + 1, Len(ib))
    /\ pc' = "write2"
    /\ UNCHANGED <<source, mainDisk, cursorFiles, runs, resume_from_page, cursor,
                   total_downloaded, page_count, main_file_mode, has_more_pages, status,
                   results, next_cursor, idx, mainBuf, histVars, flatVars>>

\* line 71 for the same work: the line goes to the buffer of main_file
WriteMain ==
    /\ pc = "write2"
    /\ LET json_line == JsonLine(enhance_work_data(results[idx]).rec)
           mb == Append(mainBuf, json_line)
       IN  \E km \in 0..Len(mb) :
              /\ mainDisk' = Val(mainDisk.v \o SubSeq(mb, 1, km))
              /\ mainBuf' = SubSeq(mb, km + 1, Len(mb))
    /\ idx' = idx + 1
    /\ pc' = "write"
    /\ UNCHANGED <<source, pageFiles, cursorFiles, runs, resume_from_page, cursor,
                   total_downloaded, page_count, main_file_mode, has_more_pages, status,
                   results, next_cursor, iterBuf, histVars, flatVars>>

\* line 68 raising: the exception leaves both with blocks, which close
\* their files, and ends the run
EnhanceRaises ==
    /\ pc = "write"
    /\ idx <= Len(results)
    /\ ~enhance_work_data(results[idx]).ok
    /\ pageFiles' = [pageFiles EXCEPT ![page_count] = @ \o iterBuf]
    /\ iterBuf' = <<>>
    /\ mainDisk' = Flushed(mainDisk, mainBuf)
    /\ mainBuf' = <<>>
    /\ pc' = "crashed"
    /\ UNCHANGED <<source, cursorFiles, runs, resume_from_page, cursor, total_downloaded,
                   page_count, main_file_mode, has_more_pages, status, results, next_cursor,
                   idx, histVars, flatVars>>

\* the end of the inner with block and lines 73-76: iter_file is closed
ClosePage ==
    /\ pc = "write"
    /\ idx > Len(results)
    /\ pageFiles' = [pageFiles EXCEPT ![page_count] = @ \o iterBuf]
    /\ iterBuf' = <<>>
    /\ total_downloaded' = total_downloaded + Len(results)
    /\ pc' = "cursor"
    /\ UNCHANGED <<source, mainDisk, cursorFiles, runs, resume_from_page, cursor, page_count,
                   main_file_mode, has_more_pages, status, results, next_cursor, idx, mainBuf,
                   histVars, flatVars>>

\* lines 77-79: a truthy cursor is kept, and the checkpoint file is created
\* empty (or emptied)
OpenCursor ==
    /\ pc = "cursor"
    /\ Truthy(next_cursor)
    /\ cursor' = next_cursor.v
    /\ cursorFiles' = (page_count :> <<>>) @@ cursorFiles
    /\ pc' = "cwrite"
    /\ UNCHANGED <<source, mainDisk, pageFiles, runs, resume_from_page, total_downloaded,
                   page_count, main_file_mode, has_more_pages, status, results, next_cursor,
                   idx, mainBuf, iterBuf, histVars, flatVars>>

\* line 80 and the end of its with block: the cursor is written, and the
\* close puts it on disk
SaveCursor ==
    /\ pc = "cwrite"
    /\ cursorFiles' = [cursorFiles EXCEPT ![page_count] = cursor]
    /\ pc' = "sleep"
    /\ UNCHANGED <<source, mainDisk, pageFiles, runs, resume_from_page, cursor,
                   total_downloaded, page_count, main_file_mode, has_more_pages, status,
                   results, next_cursor, idx, mainBuf, iterBuf, histVars, flatVars>>

\* lines 81-82: None or "" ends the pagination
LastPage ==
    /\ pc = "cursor"
    /\ ~Truthy(next_cursor)
    /\ has_more_pages' = FALSE
    /\ pc' = "sleep"
    /\ UNCHANGED <<source, fsVars, runs, resume_from_page, cursor, total_downloaded,
                   page_count, main_file_mode, status, results, next_cursor, idx, mainBuf,
                   iterBuf, histVars, flatVars>>

\* line 84, then line 53 with has_more_pages true
NextPage ==
    /\ pc = "sleep"
    /\ has_more_pages
    /\ pc' = "loop"
    /\ UNCHANGED <<source, fsVars, runs, resume_from_page, cursor, total_downloaded,
                   page_count, main_file_mode, has_more_pages, status, results, next_cursor,
                   idx, mainBuf, iterBuf, histVars, flatVars>>

\* line 84, then line 53 with has_more_pages false, and the end of the
\* outer with block: main_file is closed
Finish ==
    /\ pc = "sleep"
    /\ ~has_more_pages
    /\ mainDisk' = Flushed(mainDisk, mainBuf)
    /\ mainBuf' = <<>>
    /\ pc' = "done"
    /\ UNCHANGED <<source, pageFiles, cursorFiles, runs, resume_from_page, cursor,
                   total_downloaded, page_count, main_file_mode, has_more_pages, status,
                   results, next_cursor, idx, iterBuf, histVars, flatVars>>

\* the process is killed (SIGKILL, SIGTERM, power) at any line of the loop:
\* what the buffers hold never reaches the disk
Kill ==
    /\ pc \in Running
    /\ mainBuf' = <<>>
    /\ iterBuf' = <<>>
    /\ pc' = "killed"
    /\ UNCHANGED <<source, fsVars, runs, resume_from_page, cursor, total_downloaded,
                   page_count, main_file_mode, has_more_pages, status, results, next_cursor,
                   idx, histVars, flatVars>>

\* the process is interrupted (SIGINT) at any line of the loop:
\* KeyboardInterrupt leaves the with blocks, which close the files that are
\* open; cf, interrupted before line 80, has nothing to write out
Interrupt ==
    /\ pc \in Running
    /\ pageFiles' = IF pc \in {"write", "write2"}
                    THEN [pageFiles EXCEPT ![page_count] = @ \o iterBuf]
                    ELSE pageFiles
    /\ iterBuf' = <<>>
    /\ mainDisk' = Flushed(mainDisk, mainBuf)
    /\ mainBuf' = <<>>
    /\ pc' = "interrupted"
    /\ UNCHANGED <<source, cursorFiles, runs, resume_from_page, cursor, total_downloaded,
                   page_count, main_file_mode, has_more_pages, status, results, next_cursor,
                   idx, histVars, flatVars>>

Init ==
    /\ source \in Sources
    /\ mainDisk = Absent
    /\ pageFiles = <<>>
    /\ cursorFiles = <<>>
    /\ pc = "idle"
    /\ runs = 0
    /\ resume_from_page = 0
    /\ cursor = Star
    /\ total_downloaded = 0
    /\ page_count = 0
    /\ main_file_mode = "w"
    /\ has_more_pages = TRUE
    /\ status = 0
    /\ results = <<>>
    /\ next_cursor = Null
    /\ idx = 0
    /\ mainBuf = <<>>
    /\ iterBuf = <<>>
    /\ requests = <<>>
    /\ fetched = <<>>
    /\ start = [main |-> Absent, pages |-> <<>>, cursors |-> <<>>]
    /\ prevEnd = "idle"
    /\ work = Absent
    /\ enhanced = Absent
    /\ fpc = "input"

Next ==
    \/ \E R \in 0..(MaxPages + 1) : Start(R)
    \/ IncPage
    \/ SendRequest
    \/ RequestOk
    \/ RequestFail
    \/ OpenPage
    \/ WritePage
    \/ WriteMain
    \/ EnhanceRaises
    \/ ClosePage
    \/ OpenCursor
    \/ SaveCursor
    \/ LastPage
    \/ NextPage
    \/ Finish
    \/ Kill
    \/ Interrupt

Spec == Init /\ [][Next]_vars

(***************************************************************************)
(* The raw works enhance_work_data is tried on.  Each family varies one    *)
(* part of the work over every shape the part can take (key absent, null,  *)
(* empty, filled; names absent, null, repeated, out of order) and keeps    *)
(* the rest of BaseWork.                                                   *)
(***************************************************************************)
SeqsUpTo(S, n) == UNION {[1..m -> S] : m \in 0..n}

OptList(S, n) == {Absent, Null} \cup {Val(l) : l \in SeqsUpTo(S, n)}

NameOpts == {Absent, Null, Val(<<"A">>), Val(<<"B">>)}

BaseWork ==
    [id |-> Val(<<1, 1>>),
     display_name |-> Val(<<"T">>),
     publication_year |-> Absent,
     cited_by_count |-> Absent,
     referenced_works_count |-> Absent,
     type |-> Absent,
     authorships |-> Absent,
     topics |-> Absent,
     concepts |-> Absent,
     keywords |-> Absent,
     primary_location |-> Absent]

InstSet ==
    {[id |-> Absent, display_name |-> n, country |-> Absent, type |-> Absent] : n \in NameOpts}

AuthSet ==
    {[author |-> a, author_position |-> Absent, institutions |-> i] :
        a \in {Absent, Null, Val([id |-> Val(<<"A">>), display_name |-> Absent, orcid |-> Absent])},
        i \in OptList(InstSet, MaxList)}

AuthorWorks(n) == {[BaseWork EXCEPT !.authorships = a] : a \in OptList(AuthSet, n)}

\* a field or domain of a topic: no key, null, {}, a dictionary without a
\* display name, with a null one, with a name
FieldOpts ==
    {Absent, Null, Val(NoDict)} \cup
    {Val([id |-> Val(<<"X">>), display_name |-> n]) : n \in NameOpts}

TopicSet == {[field |-> f, domain |-> d] : f \in FieldOpts, d \in FieldOpts}

KeywordItem(name, key) == [display_name |-> name, keyword |-> key]

TopicWorks(n) ==
    {[BaseWork EXCEPT !.display_name = t, !.topics = tp, !.concepts = c, !.keywords = kw] :
        t \in {Absent, Null, Val(<<>>), Val(<<"T">>)},
        tp \in OptList(TopicSet, n),
        c \in {Absent, Val(<<KeywordItem(Val(<<"X">>), Absent)>>)},
        kw \in {Absent, Null, Val(<<KeywordItem(Absent, Val(<<"Y">>))>>),
                 Val(<<KeywordItem(Val(<<"Y">>), Absent)>>)}}

Letter(i) == <<"A", "B", "C", "D", "E", "F", "G">>[i]

\* n names that start at letter s and go on in steps of step, round the
\* seven letters: out of order for step 3, all equal for step 0
NameList(n, s, step) == [i \in 1..n |-> <<Letter(1 + ((s + step * i) % 7))>>]

KeywordWorks(most) ==
    {[BaseWork EXCEPT !.display_name = t,
                      !.concepts = IF asConcepts
                                   THEN Val([i \in 1..n |-> KeywordItem(Val(NameList(n, s, step)[i]), Absent)])
                                   ELSE e,
                      !.keywords = IF asConcepts THEN Val(<<KeywordItem(Absent, Val(<<"G">>))>>)
                                   ELSE Val([i \in 1..n |-> KeywordItem(k, Val(NameList(n, s, step)[i]))])] :
        t \in {Null, Val(<<"T">>)},
        asConcepts \in BOOLEAN,
        e \in {Absent, Val(<<>>)},
        k \in {Absent, Val(<<"X">>)},
        n \in 0..most, s \in 0..6, step \in {0, 1, 3}}

SourceOpts ==
    {Absent, Null,
     Val([display_name |-> Absent, type |-> Absent, issn |-> Absent, is_oa |-> Absent]),
     Val([display_name |-> Val(<<"A">>), type |-> Null, issn |-> Absent, is_oa |-> Val(<<"T">>)])}

CountOpts == {Absent, Null, Val(0), Val(3)}

JournalWorks ==
    {[BaseWork EXCEPT !.primary_location = l, !.cited_by_count = c,
                      !.referenced_works_count = r] :
        l \in {Absent, Null} \cup {Val([source |-> s]) : s \in SourceOpts},
        c \in CountOpts, r \in CountOpts}

FlatWorks(n, most) == AuthorWorks(n) \cup TopicWorks(n) \cup KeywordWorks(most) \cup JournalWorks

\* one call of enhance_work_data
Enhance ==
    /\ fpc = "input"
    /\ enhanced' = enhance_work_data(work)
    /\ fpc' = "returned"
    /\ UNCHANGED <<pagerVars, work>>

InitFlat ==
    /\ source = <<>>
    /\ mainDisk = Absent
    /\ pageFiles = <<>>
    /\ cursorFiles = <<>>
    /\ pc = "idle"
    /\ runs = MaxRuns
    /\ resume_from_page = 0
    /\ cursor = Star
    /\ total_downloaded = 0
    /\ page_count = 0
    /\ main_file_mode = "w"
    /\ has_more_pages = TRUE
    /\ status = 0
    /\ results = <<>>
    /\ next_cursor = Null
    /\ idx = 0
    /\ mainBuf = <<>>
    /\ iterBuf = <<>>
    /\ requests = <<>>
    /\ fetched = <<>>
    /\ start = [main |-> Absent, pages |-> <<>>, cursors |-> <<>>]
    /\ prevEnd = "idle"
    /\ work \in FlatWorks(MaxList, MaxKeywords)
    /\ enhanced = Absent
    /\ fpc = "input"

NextFlat == Enhance

SpecFlat == InitFlat /\ [][NextFlat]_vars

(***************************************************************************)
(* What the claims speak of.                                               *)
(***************************************************************************)
Flattens(works) == \A i \in DOMAIN works : enhance_work_data(works[i]).ok

\* the lines of a list of works, all of which flatten
LinesOf(works) == [i \in DOMAIN works |-> JsonLine(enhance_work_data(works[i]).rec)]

RECURSIVE SumLines(_)
SumLines(pfiles) ==
    IF DOMAIN pfiles = {} THEN 0
    ELSE LET n == CHOOSE m \in DOMAIN pfiles : TRUE
         IN  LineCount(pfiles[n]) + SumLines([m \in DOMAIN pfiles \ {n} |-> pfiles[m]])

\* the works of pages 1..n of the source, in order
RECURSIVE WorksUpTo(_, _)
WorksUpTo(src, n) == IF n = 0 THEN <<>> ELSE WorksUpTo(src, n - 1) \o src[n].works

\* the lines of the page files 1..n, in order
RECURSIVE PagesUpTo(_, _)
PagesUpTo(pfiles, n) == IF n = 0 THEN <<>> ELSE PagesUpTo(pfiles, n - 1) \o pfiles[n]

\* the cursors a run over the whole source sends: "*", then what each page
\* but the last returned
CursorChain(src) == [i \in 1..Len(src) |-> IF i = 1 THEN Star ELSE src[i - 1].next.v]

IsPrefix(s, t) == Len(s) <= Len(t) /\ SubSeq(t, 1, Len(s)) = s

\* the run ended by itself: the loop was left or an exception ended it
Stopped == pc \in {"done", "crashed"}

\* what the cumulative file held once the run had opened it
KeptAtOpen == IF main_file_mode = "a" /\ start.main.k = "val" THEN start.main.v ELSE <<>>

\* the page counter the run started from
FirstPage == FirstPageCount(resume_from_page, start.cursors)

\* the last response ends the pagination: not 200, or no next cursor
LastResponseEnds == status # 200 \/ ~Truthy(next_cursor)

\* C1: at the end of every run, fresh or resumed with any resume_from_page,
\* the cumulative file has as many lines as all page files present together.
C1_CumulativeMatchesPages ==
    Stopped => LineCount(mainDisk.v) = SumLines(pageFiles)

\* C2: after a run that completed exactly the pages 1..R-1, a run with
\* resume_from_page = R sends its first request with the cursor stored in
\* cursor_after_page_{R-1}.txt, writes its first page to page file R, keeps
\* the lines the cumulative file had and appends only the newly fetched
\* records, and ends with total_downloaded = the lines of page files 1..R-1
\* plus the number of newly fetched records.
C2_Case ==
    /\ pc # "idle"
    /\ resume_from_page >= 2
    /\ prevEnd = "done"
    /\ DOMAIN start.pages = 1..(resume_from_page - 1)
    /\ DOMAIN start.cursors = 1..(resume_from_page - 1)
    /\ start.main = Val(PagesUpTo(start.pages, resume_from_page - 1))

C2_ResumeContinues ==
    C2_Case =>
        /\ requests # <<>> => requests[1] = start.cursors[resume_from_page - 1]
        /\ (Len(requests) = 1 /\ pc \in {"write", "write2"}) => page_count = resume_from_page
        /\ IsPrefix(start.main.v, mainDisk.v)
        /\ Stopped =>
              /\ Flattens(fetched)
              /\ mainDisk.v = start.main.v \o LinesOf(fetched)
              /\ total_downloaded = LineCount(start.main.v) + Len(fetched)

\* C3: over a source of N pages that all answer 200, a fresh run in an empty
\* directory sends exactly N requests ("*", then the cursor each response
\* returned), writes page files 1..N with exactly their page's records, a
\* cumulative file with all records in order, and checkpoint files for
\* exactly the pages 1..N-1, each holding the cursor its page returned.
C3_Case ==
    /\ Stopped
    /\ status = 200
    /\ resume_from_page = 0
    /\ start = [main |-> Absent, pages |-> <<>>, cursors |-> <<>>]

C3_FreshRunComplete ==
    C3_Case =>
        /\ requests = CursorChain(source)
        /\ Flattens(WorksUpTo(source, Len(source)))
        /\ pageFiles = [n \in 1..Len(source) |-> LinesOf(source[n].works)]
        /\ mainDisk = Val(LinesOf(WorksUpTo(source, Len(source))))
        /\ cursorFiles = [n \in 1..(Len(source) - 1) |-> source[n].next.v]

\* C4: when the request for page k is answered with a status other than 200,
\* the run sends no further request, creates neither a page file nor a
\* checkpoint file for page k, and the page files, the checkpoint files and
\* the records of the pages fetched before k in the cumulative file stay.
C4_NonOkStopsIntact ==
    /\ [][(pc = "wait" /\ status' # status /\ status' # 200) =>
            /\ pc' = "done"
            /\ pageFiles' = pageFiles
            /\ cursorFiles' = cursorFiles
            /\ Flattens(fetched)
            /\ mainDisk' = Val(KeptAtOpen \o LinesOf(fetched))]_vars
    /\ [][(status \in NonOk /\ requests # <<>>) =>
            (requests' = requests \/ (requests' = <<>> /\ runs' = runs + 1))]_vars

\* reached: page k >= 2 was refused after records of earlier pages had been
\* written
C4_Witness ==
    /\ pc = "done"
    /\ status \in NonOk
    /\ Len(requests) >= 2
    /\ fetched # <<>>
    /\ page_count \notin DOMAIN pageFiles
    /\ page_count \notin DOMAIN cursorFiles

\* C5: with resume_from_page = R and no cursor_after_page_{R-1}.txt the run
\* goes on as a fresh run: no error, cursor "*", page counter 0 (the first
\* page written is page 1), total_downloaded 0, and the cumulative file
\* opened in "w" mode, which discards what it held.
C5_FallbackCase ==
    /\ pc # "idle"
    /\ resume_from_page # 0
    /\ (resume_from_page - 1) \notin DOMAIN start.cursors

C5_MissingCheckpointIsFresh ==
    /\ [][(pc \notin Running /\ pc' = "loop" /\ resume_from_page' # 0
           /\ (resume_from_page' - 1) \notin DOMAIN cursorFiles) =>
            /\ cursor' = Star
            /\ page_count' = 0
            /\ total_downloaded' = 0
            /\ main_file_mode' = "w"
            /\ mainDisk' = Val(<<>>)]_vars
    /\ [](C5_FallbackCase =>
            /\ requests # <<>> => requests[1] = Star
            /\ page_count \in {Len(requests), Len(requests) + 1}
            /\ pc \in Running \ {"send"} => page_count = Len(requests)
            /\ pc \in {"write", "write2"} => page_count \in DOMAIN pageFiles
            /\ requests = <<>> => total_downloaded = 0
            /\ pc \in Running \ {"open", "write", "write2"} => total_downloaded = Len(fetched)
            /\ Len(mainDisk.v) <= Len(fetched)
            /\ Flattens(SubSeq(fetched, 1, Len(mainDisk.v)))
            /\ IsPrefix(mainDisk.v, LinesOf(SubSeq(fetched, 1, Len(mainDisk.v)))))

\* reached: a run asked to resume finds no checkpoint and has emptied a
\* cumulative file that held records
C5_Witness ==
    /\ C5_FallbackCase
    /\ pc = "loop"
    /\ requests = <<>>
    /\ start.main.k = "val"
    /\ start.main.v # <<>>
    /\ mainDisk = Val(<<>>)

\* C6: enhance_work_data signals no error, whatever part of the nested
\* structure of the raw record is absent or null: it returns a flat record;
\* a record without authorships yields authors_count = 0,
\* institutions_count = 0 and an empty authors list.
C6_FlattenNeverRaises ==
    fpc = "returned" =>
        /\ enhanced.ok
        /\ work.authorships.k = "absent" =>
              /\ enhanced.rec.authors_count = 0
              /\ enhanced.rec.institutions_count = 0
              /\ enhanced.rec.authors = <<>>

\* the names the record gives under a key of its topics, null for a name
\* that is absent or null
RawTopicNames(w, key) ==
    LET topics == GetOr(w.topics, <<>>).v
    IN  {Get(topics[i][key].v.display_name) : i \in {j \in DOMAIN topics : TruthyDict(Get(topics[j][key]))}}

\* the concept display names, or keywords[].keyword when there are no concepts
RawKeywordNames(w) ==
    LET concepts == GetOr(w.concepts, <<>>).v
        keywords == GetOr(w.keywords, <<>>).v
    IN  IF concepts # <<>> THEN {Get(concepts[i].display_name) : i \in DOMAIN concepts}
        ELSE {Get(keywords[i].keyword) : i \in DOMAIN keywords}

\* s lists the strings of S once each, in ascending order
IsSortedListOf(s, S) ==
    /\ \A n \in S : n.k = "val"
    /\ {s[i] : i \in DOMAIN s} = {n.v : n \in S}
    /\ \A i, j \in DOMAIN s : i < j => StrLess(s[i], s[j])

\* the parts that are not empty, with " | " between them
RECURSIVE PipeJoined(_)
PipeJoined(parts) ==
    IF parts = <<>> THEN <<>>
    ELSE IF Head(parts) = <<>> THEN PipeJoined(Tail(parts))
    ELSE IF PipeJoined(Tail(parts)) = <<>> THEN Head(parts)
    ELSE Head(parts) \o <<" ", "|", " ">> \o PipeJoined(Tail(parts))

RECURSIVE CommaJoined(_)
CommaJoined(names) ==
    IF names = <<>> THEN <<>>
    ELSE IF Len(names) = 1 THEN names[1]
    ELSE names[1] \o <<",", " ">> \o CommaJoined(Tail(names))

Min(a, b) == IF a < b THEN a ELSE b

\* research_topic, top_keywords and the three sorted lists are as the claim
\* says, for a call that returned
C7_TopicOf(w, rec) ==
    /\ IsSortedListOf(rec.fields, RawTopicNames(w, "field"))
    /\ IsSortedListOf(rec.domains, RawTopicNames(w, "domain"))
    /\ IsSortedListOf(rec.keywords, RawKeywordNames(w))
    /\ rec.top_keywords = SubSeq(rec.keywords, 1, Min(5, Len(rec.keywords)))
    /\ rec.research_topic =
         PipeJoined(<<IF w.display_name.k = "val" THEN w.display_name.v ELSE <<>>,
                      CommaJoined(rec.fields), CommaJoined(rec.domains),
                      CommaJoined(rec.top_keywords)>>)

\* C7: for every raw record research_topic is the " | "-join, in this order
\* and without the empty parts, of the title, the ", "-joined sorted
\* distinct field names, the ", "-joined sorted distinct domain names and
\* the ", "-joined top_keywords, the first min(5, len) sorted distinct
\* keywords (concept display names, or keywords[].keyword without concepts).
C7_ResearchTopic ==
    fpc = "returned" => (enhanced.ok /\ C7_TopicOf(work, enhanced.rec))

\* C8: a run stops at the first response that is not 200 or carries no next
\* cursor and sends no request after it, and it never stops while the
\* responses are 200 and carry a next cursor.  (That such a response ends
\* the run is the step RequestFail, or LastPage and Finish.)
C8_StopsOnlyAtLastResponse ==
    /\ Stopped => LastResponseEnds
    /\ (pc = "loop" /\ requests # <<>>) => ~LastResponseEnds

\* the highest page whose checkpoint file the run found, 0 without any
HighestCheckpoint == IF DOMAIN start.cursors = {} THEN 0
                     ELSE CHOOSE n \in DOMAIN start.cursors : \A m \in DOMAIN start.cursors : m <= n

\* C9: a run terminated from outside at any point and then resumed with
\* resume_from_page = P+1, P the highest page with a checkpoint file, leaves
\* in the cumulative file exactly the records an uninterrupted fresh run
\* over the same source writes, once each and in the same order.
C9_Case ==
    /\ prevEnd \in {"killed", "interrupted"}
    /\ resume_from_page = HighestCheckpoint + 1
    /\ pc = "done"
    /\ status = 200

C9_ResumeEqualsFreshRun ==
    C9_Case =>
        /\ Flattens(WorksUpTo(source, Len(source)))
        /\ mainDisk = Val(LinesOf(WorksUpTo(source, Len(source))))

\* the run has written cursor_after_page_n.txt and is still running
WroteCheckpoint(n) ==
    /\ pc \in Running
    /\ n > FirstPage
    /\ n \in DOMAIN cursorFiles
    /\ n < page_count \/ (n = page_count /\ pc \in {"sleep", "loop"})

\* C10: in every state of a run, once the run has written
\* cursor_after_page_N.txt the file articles_page_N.jsonl is complete on
\* disk, and every record of the pages up to N is in the cumulative file on
\* disk.
C10_CheckpointAfterData ==
    \A n \in 1..MaxPages :
        WroteCheckpoint(n) =>
            /\ Flattens(source[n].works)
            /\ pageFiles[n] = LinesOf(source[n].works)
            /\ \A m \in (FirstPage + 1)..n :
                  \A i \in DOMAIN pageFiles[m] :
                      \E j \in DOMAIN mainDisk.v : mainDisk.v[j] = pageFiles[m][i]
====
